---- MODULE Spec2Model ----
(***************************************************************************)
(* Flattened-COO sparse matrix-vector multiply (y += A*x) of               *)
(* cusp/device/spmv_coo_flat.h: the host drivers __spmv_coo_flat and       *)
(* __spmv_coo_flat_atomic, the level-1 kernels, the level-2 carry          *)
(* reduction and the serial tail kernel.                                   *)
(*                                                                         *)
(* A warp executes in lockstep (its lanes act together, loads before       *)
(* stores); distinct warps of one dispatch interleave freely.  A plain     *)
(* "y[r] += v" is a read step followed by a write step, atomicAdd is one   *)
(* step.  Kernels dispatched by one call run in dispatch order.            *)
(*                                                                         *)
(* WARP_SIZE, the block sizes and MAX_BLOCKS are compile-time constants of *)
(* the program (32, 256/128/512, MAX_THREADS/...); here they are scaled    *)
(* down and drawn by Init so that every relation between them and the      *)
(* number of entries is exercised.                                         *)
(***************************************************************************)
EXTENDS Integers, Sequences, FiniteSets, Bags, TLC

\* ------------------------------------------------------------------ bounds

\* a matrix has at most WARP_SIZE + MaxExtra entries
MaxExtra   == 4
RowIds     == 0 .. 2
ColIds     == 0 .. 1
WarpSizes  == {2, 4}
WarpsPerBlockChoices == {1, 2}
MaxBlocksChoices     == {1, 2}
ReduceBlockChoices   == {2}
\* the pairs <<x, initial y>> a run is started with
Vectors    == { << [c \in ColIds |-> 3 - 2 * c], [r \in RowIds |-> 10 * (r + 1)] >> }

Ops == <<"spmv_coo_flat", "spmv_coo_flat_tex",
         "spmv_coo_flat_atomic", "spmv_coo_flat_atomic_tex">>

\* ------------------------------------------------------------------ state

VARIABLES
    I, J, V,          \* d_coo.row_indices, column_indices, values (0-based)
    x, y0,            \* the input vector; the caller's contents of y before a call
    WARP_SIZE,        \* lanes per warp
    WARPS_PER_BLOCK,  \* BLOCK_SIZE / WARP_SIZE of the level-1 dispatch
    MAX_BLOCKS,       \* block limit of the level-1 dispatch
    REDUCE_BLOCK,     \* BLOCK_SIZE of spmv_coo_reduce_update_kernel
    opi,              \* index in Ops of the operation being called
    pc,               \* position of the host in the call
    y,                \* d_y: row -> value
    acc,              \* the accumulations into y made so far by the current call
    bound,            \* number of live texture bindings of x
    temp,             \* "none" | "allocated" | "freed": the carry buffer
    temp_rows,        \* carry buffer: slot -> row (Unwritten before its write)
    temp_vals,        \* carry buffer: slot -> value
    warp,             \* level-1 dispatch: warp_id -> local state of the warp
    serial,           \* serial kernel: its loop index n, its end, the entries done
    red,              \* level-2 kernel: [i, rows, vals] (loop base, shared arrays)
    log,              \* events of the current call, in order
    results,          \* operation index -> y when that call returned
    kept              \* the accumulations of each deferred call that returned

inputs == <<I, J, V, x, y0, WARP_SIZE, WARPS_PER_BLOCK, MAX_BLOCKS, REDUCE_BLOCK>>
device == <<y, acc, bound, temp, temp_rows, temp_vals, warp, serial, red>>
vars   == <<inputs, opi, pc, device, log, results, kept>>

\* ------------------------------------------------------------------ values

\* A ValueType value: the number v, and src, the bag of entry indices whose
\* products V[e] * x[J[e]] have been summed into it.
Zero == [v |-> 0, src |-> EmptyBag]

Add(a, b) == [v |-> a.v + b.v, src |-> a.src (+) b.src]

Min(a, b) == IF a < b THEN a ELSE b

\* DIVIDE_INTO(x, y) = (x + y - 1) / y
DIVIDE_INTO(a, b) == (a + b - 1) \div b

num_entries == Len(I)

\* 1-based sequences hold the 0-based arrays of the program
At(s, n) == s[n + 1]

UseCache == opi \in {2, 4}
Atomic   == opi \in {3, 4}

\* texture.h fetch_x<UseCache>(i, x): x[i], read through the texture bound to x
\* when UseCache (an unbound texture reads as 0)
fetch_x(i) == IF UseCache /\ bound = 0 THEN 0 ELSE x[i]

\* val = A[row,col] * x[col] of entry n
Product(n) == [v |-> At(V, n) * fetch_x(At(J, n)), src |-> SetToBag({n})]

\* the same product with x read directly, as the serial kernel reads it
ProductDirect(n) == [v |-> At(V, n) * x[At(J, n)], src |-> SetToBag({n})]

\* ------------------------------------------------------------------ planner

num_units == num_entries \div WARP_SIZE

UnitLimit == WARPS_PER_BLOCK * MAX_BLOCKS

num_warps == Min(num_units, UnitLimit)

num_blocks == DIVIDE_INTO(num_warps, WARPS_PER_BLOCK)

\* mutant: the iterations per warp rounded down
num_iters_floor == num_units \div num_warps

num_iters == DIVIDE_INTO(num_units, num_warps)

interval_size == WARP_SIZE * num_iters

\* mutant: the level-1 kernels are given all entries, the incomplete stride included
tail_all_entries == num_entries

\* mutant: the tail starts one unit early
tail_one_unit_early == (num_units - 1) * WARP_SIZE

tail == num_units * WARP_SIZE

\* mutant: one carry slot per warp of the planner, with or without an interval
active_warps_all == num_warps

active_warps == IF interval_size = 0 THEN 0 ELSE DIVIDE_INTO(tail, interval_size)

\* warps of the <<<num_blocks, BLOCK_SIZE>>> dispatch
Launched == 0 .. (num_blocks * WARPS_PER_BLOCK - 1)

Lanes == 0 .. (WARP_SIZE - 1)

\* ------------------------------------------------------------------ init

Sorted(s) == \A a, b \in 1 .. Len(s) : a <= b => s[a] <= s[b]

RowSeqs(maxlen) == UNION { { s \in [1 .. n -> RowIds] : Sorted(s) } : n \in 0 .. maxlen }

Unwritten == -2

NoSerial == [n |-> 0, end |-> 0, seen |-> <<>>]
NoRed    == [i |-> 0, rows |-> <<>>, vals |-> <<>>]

Init ==
    /\ WARP_SIZE \in WarpSizes
    /\ I \in RowSeqs(WARP_SIZE + MaxExtra)
    /\ J = [e \in 1 .. Len(I) |-> e % Cardinality(ColIds)]
    /\ V = [e \in 1 .. Len(I) |-> 1 + (e % 3)]
    /\ \E p \in Vectors : x = p[1] /\ y0 = p[2]
    /\ WARPS_PER_BLOCK \in WarpsPerBlockChoices
    /\ MAX_BLOCKS \in MaxBlocksChoices
    /\ REDUCE_BLOCK \in ReduceBlockChoices
    /\ opi = 0
    /\ pc = "idle"
    /\ y = [r \in RowIds |-> [v |-> y0[r], src |-> EmptyBag]]
    /\ acc = {}
    /\ bound = 0
    /\ temp = "none"
    /\ temp_rows = <<>>
    /\ temp_vals = <<>>
    /\ warp = <<>>
    /\ serial = NoSerial
    /\ red = NoRed
    /\ log = <<>>
    /\ results = <<>>
    /\ kept = <<>>

\* ------------------------------------------------------------------ host

\* The caller invokes the next of the four entry points on the same matrix,
\* x and initial y.
Call ==
    /\ pc = "idle"
    /\ opi < Len(Ops)
    /\ opi' = opi + 1
    /\ pc' = "entry"
    /\ y' = [r \in RowIds |-> [v |-> y0[r], src |-> EmptyBag]]
    /\ acc' = {}
    /\ temp' = "none"
    /\ temp_rows' = <<>>
    /\ temp_vals' = <<>>
    /\ log' = <<>>
    /\ UNCHANGED <<inputs, bound, warp, serial, red, results, kept>>

\* mutant: the empty matrix is not recognised
IsEmptyNever == FALSE

\* if(d_coo.num_entries == 0) return;
IsEmpty == num_entries = 0

\* else if (d_coo.num_entries < WARP_SIZE)
IsSmall == num_entries < WARP_SIZE

ReturnEmpty ==
    /\ pc = "entry"
    /\ IsEmpty
    /\ pc' = "returned"
    /\ UNCHANGED <<inputs, opi, device, log, results, kept>>

\* mutant: the small-matrix dispatch passes one entry too few
SerialOnlyDropsLast ==
    /\ pc = "entry"
    /\ ~IsEmpty
    /\ IsSmall
    /\ serial' = [n |-> 0, end |-> num_entries - 1, seen |-> <<>>]
    /\ log' = Append(log, "serial")
    /\ pc' = "serial_only"
    /\ UNCHANGED <<inputs, opi, y, acc, bound, temp, temp_rows, temp_vals, warp, red, results, kept>>

\* spmv_coo_serial_kernel <<<1,1>>> (num_entries, I, J, V, x, y); return;
SerialOnly ==
    /\ pc = "entry"
    /\ ~IsEmpty
    /\ IsSmall
    /\ serial' = [n |-> 0, end |-> num_entries, seen |-> <<>>]
    /\ log' = Append(log, "serial")
    /\ pc' = "serial_only"
    /\ UNCHANGED <<inputs, opi, y, acc, bound, temp, temp_rows, temp_vals, warp, red, results, kept>>

\* the planner, then if (UseCache) bind_x(d_x);
Plan ==
    /\ pc = "entry"
    /\ ~IsEmpty
    /\ ~IsSmall
    /\ bound' = IF UseCache THEN bound + 1 ELSE bound
    /\ log' = IF UseCache THEN Append(log, "bind_x") ELSE log
    /\ pc' = IF Atomic THEN "launch1" ELSE "alloc"
    /\ UNCHANGED <<inputs, opi, y, acc, temp, temp_rows, temp_vals, warp, serial, red, results, kept>>

\* new_device_array<T>(active_warps), twice: the carry buffer, or a failure
AllocOutcomes == {"ok", "bad_alloc"}

\* mutant: a failed allocation is ignored
AfterAllocIgnoresFailure(res) == "launch1"

\* lines 392-396: nothing between the allocation and the level-1 dispatch
\* handles a failure, so a failed allocation leaves the function at once and a
\* successful one goes on to the dispatch
AfterAlloc(res) == IF res = "bad_alloc" THEN "raised" ELSE "launch1"

Alloc ==
    /\ pc = "alloc"
    /\ \E res \in AllocOutcomes :
         /\ pc' = AfterAlloc(res)
         /\ log' = Append(log, IF res = "ok" THEN "alloc" ELSE "bad_alloc")
         /\ IF res = "ok"
              THEN /\ temp' = "allocated"
                   /\ temp_rows' = [s \in 1 .. active_warps |-> Unwritten]
                   /\ temp_vals' = [s \in 1 .. active_warps |-> Zero]
              ELSE UNCHANGED <<temp, temp_rows, temp_vals>>
    /\ UNCHANGED <<inputs, opi, y, acc, bound, warp, serial, red, results, kept>>

\* ------------------------------------------------------------------ level 1

Uninit == -3

\* an accumulation into y[row]: by a warp of level 1 ("warp"), a thread of
\* level 2 ("reduce") or the serial kernel ("serial"); plain or atomic; at
\* stride / loop position `at`; of the value val; the ord-th into that row
Event(unit, id, row, kind, at, val) ==
    [unit |-> unit, id |-> id, row |-> row, kind |-> kind, at |-> at,
     v |-> val.v, src |-> val.src, ord |-> Cardinality({ e \in acc : e.row = row })]

\* a warp at the start of the kernel: its shared arrays are not initialised
NewWarp == [pc |-> "start", k |-> 0,
            carry_idx |-> Uninit, carry_val |-> Zero,
            idx |-> [t \in Lanes |-> Uninit], val |-> [t \in Lanes |-> Zero],
            crd |-> Zero, rd |-> [t \in Lanes |-> Zero]]

\* spmv_coo_flat[_atomic]_kernel <<<num_blocks, BLOCK_SIZE>>> (tail, interval_size, ...)
Launch1 ==
    /\ pc = "launch1"
    /\ warp' = [w \in Launched |-> NewWarp]
    /\ log' = Append(log, "level1")
    /\ pc' = "level1"
    /\ UNCHANGED <<inputs, opi, y, acc, bound, temp, temp_rows, temp_vals, serial, red, results, kept>>

\* begin = warp_id * interval_size + thread_lane
LaneBegin(w, t) == w * interval_size + t

\* end = min(begin + interval_size, num_entries), the kernel's num_entries being tail
LaneEnd(w, t) == Min(LaneBegin(w, t) + interval_size, tail)

\* if(begin >= end) return;
LaneRuns(w, t) == LaneBegin(w, t) < LaneEnd(w, t)

\* the for loop: lane t executes stride k of warp w
LaneIn(w, t, k) == LaneRuns(w, t) /\ LaneBegin(w, t) + k * WARP_SIZE < LaneEnd(w, t)

StrideLanes(w, k) == { t \in Lanes : LaneIn(w, t, k) }

\* mutant: the first row of the matrix is taken for the first row of the interval
first_idx_of_matrix(w) == At(I, 0)

\* first_idx = I[warp_id * interval_size]
first_idx(w) == At(I, w * interval_size)

\* mutant: a lane adds its neighbour's value whatever the neighbour's row
ScanStepUnsegmented(idx, val, d) ==
    [t \in DOMAIN val |-> IF t >= d THEN Add(val[t], val[t - d]) ELSE val[t]]

\* one distance of the segmented scan, all lanes in lockstep
ScanStep(idx, val, d) ==
    [t \in DOMAIN val |->
        IF t >= d /\ idx[t] = idx[t - d] THEN Add(val[t], val[t - d]) ELSE val[t]]

RECURSIVE ScanFrom(_, _, _, _)
ScanFrom(idx, val, d, width) ==
    IF d >= width THEN val ELSE ScanFrom(idx, ScanStep(idx, val, d), 2 * d, width)

\* segreduce_warp: distances 1, 2, 4, ..., WARP_SIZE / 2
segreduce_warp(idx, val) == ScanFrom(idx, val, 1, WARP_SIZE)

\* mutant: the level-2 kernel leaves out the scan
segreduce_block_skipped(idx, val) == val

\* segreduce_block: distances 1, 2, 4, ..., BLOCK_SIZE / 2
segreduce_block(idx, val) == ScanFrom(idx, val, 1, REDUCE_BLOCK)

\* mutant: every add of the atomic kernel's loop is a plain add
PlainAddAlways(w, r) == TRUE

\* the branch "y[..] += .." (plain) rather than atomicAdd, for row r in warp w
PlainAdd(w, r) == ~Atomic \/ r # first_idx(w)

\* mutant: a warp without work does not return and stores its carry
WarpReturnWritesCarry(w) ==
    /\ pc = "level1"
    /\ warp[w].pc = "start"
    /\ StrideLanes(w, 0) = {}
    /\ warp' = [warp EXCEPT ![w].pc = "done"]
    /\ IF Atomic
         THEN UNCHANGED <<temp_rows, temp_vals>>
         ELSE /\ temp_rows' = ((w + 1) :> warp[w].carry_idx) @@ temp_rows
              /\ temp_vals' = ((w + 1) :> warp[w].carry_val) @@ temp_vals
    /\ UNCHANGED <<inputs, opi, pc, y, acc, bound, temp, serial, red, log, results, kept>>

\* if(begin >= end) return;   for a whole warp
WarpReturn(w) ==
    /\ pc = "level1"
    /\ warp[w].pc = "start"
    /\ StrideLanes(w, 0) = {}
    /\ warp' = [warp EXCEPT ![w].pc = "done"]
    /\ UNCHANGED <<inputs, opi, pc, y, acc, bound, temp, temp_rows, temp_vals, serial, red, log, results, kept>>

\* mutant: the carry starts as {0, 0}
carry_init_zero(w) == 0

\* carry_idx[warp_lane] = I[begin] (first_idx in the atomic kernel), thread_lane == 0
carry_init(w) == At(I, LaneBegin(w, 0))

\* the loads of one stride and lane 0's handling of the held carry
\* (before the first stride the carry is {I[begin], 0})
WarpLoad(w) ==
    /\ pc = "level1"
    /\ warp[w].pc \in {"start", "load"}
    /\ StrideLanes(w, warp[w].k) # {}
    /\ LET me   == warp[w]
           L    == StrideLanes(w, me.k)
           n(t) == LaneBegin(w, t) + me.k * WARP_SIZE
           cidx == IF me.pc = "start" THEN carry_init(w) ELSE me.carry_idx
           cval == IF me.pc = "start" THEN Zero ELSE me.carry_val
           idx1 == [t \in Lanes |-> IF t \in L THEN At(I, n(t)) ELSE me.idx[t]]
           val1 == [t \in Lanes |-> IF t \in L THEN Product(n(t)) ELSE me.val[t]]
           base == [me EXCEPT !.idx = idx1, !.val = val1,
                              !.carry_idx = cidx, !.carry_val = cval]
       IN  IF 0 \notin L
             THEN /\ warp' = [warp EXCEPT ![w] = [base EXCEPT !.pc = "scan"]]
                  /\ UNCHANGED <<y, acc>>
             ELSE IF idx1[0] = cidx
               THEN \* row continues into this warp's span
                    /\ warp' = [warp EXCEPT ![w] =
                                  [base EXCEPT !.pc = "scan",
                                               !.val[0] = Add(val1[0], cval)]]
                    /\ UNCHANGED <<y, acc>>
               ELSE IF PlainAdd(w, cidx)
                 THEN \* y[carry_idx] += carry_val: the read
                      /\ warp' = [warp EXCEPT ![w] =
                                    [base EXCEPT !.pc = "carry_write", !.crd = y[cidx]]]
                      /\ UNCHANGED <<y, acc>>
                 ELSE \* atomicAdd(y + carry_idx, carry_val)
                      /\ warp' = [warp EXCEPT ![w] = [base EXCEPT !.pc = "scan"]]
                      /\ y' = [y EXCEPT ![cidx] = Add(@, cval)]
                      /\ acc' = acc \cup {Event("warp", w, cidx, "atomic", <<me.k, "carry">>, cval)}
    /\ UNCHANGED <<inputs, opi, pc, bound, temp, temp_rows, temp_vals, serial, red, log, results, kept>>

\* y[carry_idx] += carry_val: the write
WarpCarryWrite(w) ==
    /\ pc = "level1"
    /\ warp[w].pc = "carry_write"
    /\ y' = [y EXCEPT ![warp[w].carry_idx] = Add(warp[w].crd, warp[w].carry_val)]
    /\ acc' = acc \cup {Event("warp", w, warp[w].carry_idx, "plain",
                              <<warp[w].k, "carry">>, warp[w].carry_val)}
    /\ warp' = [warp EXCEPT ![w].pc = "scan"]
    /\ UNCHANGED <<inputs, opi, pc, bound, temp, temp_rows, temp_vals, serial, red, log, results, kept>>

\* mutant: every lane but the last flushes, whatever its successor's row
TerminatingIgnoringRows(w) ==
    { t \in StrideLanes(w, warp[w].k) : t # WARP_SIZE - 1 }

\* lanes other than the last whose row differs from their successor's
Terminating(w) ==
    { t \in StrideLanes(w, warp[w].k) :
        t # WARP_SIZE - 1 /\ warp[w].idx[t] # warp[w].idx[t + 1] }

\* segreduce_warp, then the reads of the plain "y[idx] += val" of the
\* terminating lanes
WarpScan(w) ==
    /\ pc = "level1"
    /\ warp[w].pc = "scan"
    /\ LET me   == warp[w]
           val2 == segreduce_warp(me.idx, me.val)
       IN  warp' = [warp EXCEPT ![w] =
                      [me EXCEPT !.pc = "flush", !.val = val2,
                                 !.rd = [t \in Lanes |->
                                           IF t \in Terminating(w) /\ PlainAdd(w, me.idx[t])
                                             THEN y[me.idx[t]] ELSE me.rd[t]]]]
    /\ UNCHANGED <<inputs, opi, pc, y, acc, bound, temp, temp_rows, temp_vals, serial, red, log, results, kept>>

\* the last lane saves the carry; the terminating lanes write (plain) or
\* atomicAdd their row sums; n += WARP_SIZE
WarpFlush(w) ==
    /\ pc = "level1"
    /\ warp[w].pc = "flush"
    /\ LET me    == warp[w]
           L     == StrideLanes(w, me.k)
           last  == WARP_SIZE - 1
           E     == Terminating(w)
           P     == { t \in E : PlainAdd(w, me.idx[t]) }
           A     == E \ P
           yp    == [r \in RowIds |->
                       IF \E t \in P : me.idx[t] = r
                         THEN LET t == CHOOSE t \in P : me.idx[t] = r
                              IN  Add(me.rd[t], me.val[t])
                         ELSE y[r]]
           RECURSIVE atom(_, _)
           atom(yy, S) ==
               IF S = {} THEN yy
               ELSE LET t == CHOOSE t \in S : TRUE
                    IN  atom([yy EXCEPT ![me.idx[t]] = Add(@, me.val[t])], S \ {t})
       IN  /\ y' = atom(yp, A)
           /\ acc' = acc \cup
                 { Event("warp", w, me.idx[t], IF t \in P THEN "plain" ELSE "atomic",
                         <<me.k, "lane", t>>, me.val[t]) : t \in E }
           /\ warp' = [warp EXCEPT ![w] =
                         [me EXCEPT !.k = me.k + 1,
                                    !.pc = IF StrideLanes(w, me.k + 1) # {}
                                             THEN "load" ELSE "final",
                                    !.carry_idx = IF last \in L THEN me.idx[last] ELSE @,
                                    !.carry_val = IF last \in L THEN me.val[last] ELSE @]]
    /\ UNCHANGED <<inputs, opi, pc, bound, temp, temp_rows, temp_vals, serial, red, log, results, kept>>

\* mutant: the final carry of a warp is dropped
WarpFinalDropsCarry(w) ==
    /\ pc = "level1"
    /\ warp[w].pc = "final"
    /\ warp' = [warp EXCEPT ![w].pc = "done"]
    /\ UNCHANGED <<inputs, opi, pc, y, acc, bound, temp, temp_rows, temp_vals, serial, red, log, results, kept>>

\* mutant: the final carry goes to the next free slot of the carry buffer
WarpFinalArrivalSlot(w) ==
    /\ pc = "level1"
    /\ warp[w].pc = "final"
    /\ warp' = [warp EXCEPT ![w].pc = "done"]
    /\ IF ~LaneRuns(w, WARP_SIZE - 1)
         THEN UNCHANGED <<y, acc, temp_rows, temp_vals>>
         ELSE IF Atomic
           THEN /\ y' = [y EXCEPT ![warp[w].carry_idx] = Add(@, warp[w].carry_val)]
                /\ acc' = acc \cup {Event("warp", w, warp[w].carry_idx, "atomic",
                                          <<warp[w].k, "final">>, warp[w].carry_val)}
                /\ UNCHANGED <<temp_rows, temp_vals>>
           ELSE LET s == 1 + Cardinality({ i \in DOMAIN temp_rows : temp_rows[i] # Unwritten })
                IN  /\ temp_rows' = (s :> warp[w].carry_idx) @@ temp_rows
                    /\ temp_vals' = (s :> warp[w].carry_val) @@ temp_vals
                    /\ UNCHANGED <<y, acc>>
    /\ UNCHANGED <<inputs, opi, pc, bound, temp, serial, red, log, results, kept>>

\* mutant: the final carry is added to y by the warp itself, in both policies
WarpFinalToY(w) ==
    /\ pc = "level1"
    /\ warp[w].pc = "final"
    /\ warp' = [warp EXCEPT ![w].pc = "done"]
    /\ IF ~LaneRuns(w, WARP_SIZE - 1)
         THEN UNCHANGED <<y, acc, temp_rows, temp_vals>>
         ELSE /\ y' = [y EXCEPT ![warp[w].carry_idx] = Add(@, warp[w].carry_val)]
              /\ acc' = acc \cup {Event("warp", w, warp[w].carry_idx,
                                        IF Atomic THEN "atomic" ELSE "plain",
                                        <<warp[w].k, "final">>, warp[w].carry_val)}
              /\ UNCHANGED <<temp_rows, temp_vals>>
    /\ UNCHANGED <<inputs, opi, pc, bound, temp, serial, red, log, results, kept>>

\* final carry: temp_rows[warp_id], temp_vals[warp_id] (deferred) or atomicAdd
WarpFinal(w) ==
    /\ pc = "level1"
    /\ warp[w].pc = "final"
    /\ warp' = [warp EXCEPT ![w].pc = "done"]
    /\ IF ~LaneRuns(w, WARP_SIZE - 1)
         THEN UNCHANGED <<y, acc, temp_rows, temp_vals>>
         ELSE IF Atomic
           THEN /\ y' = [y EXCEPT ![warp[w].carry_idx] = Add(@, warp[w].carry_val)]
                /\ acc' = acc \cup {Event("warp", w, warp[w].carry_idx, "atomic",
                                          <<warp[w].k, "final">>, warp[w].carry_val)}
                /\ UNCHANGED <<temp_rows, temp_vals>>
           ELSE /\ temp_rows' = ((w + 1) :> warp[w].carry_idx) @@ temp_rows
                /\ temp_vals' = ((w + 1) :> warp[w].carry_val) @@ temp_vals
                /\ UNCHANGED <<y, acc>>
    /\ UNCHANGED <<inputs, opi, pc, bound, temp, serial, red, log, results, kept>>

\* ------------------------------------------------------------------ tail

\* mutant: the tail and level-2 dispatches do not wait for the level-1 kernel
AllWarpsDoneNoWait == TRUE

AllWarpsDone == \A w \in DOMAIN warp : warp[w].pc = "done"

\* spmv_coo_serial_kernel <<<1,1>>> (num_entries - tail, I + tail, J + tail, V + tail, x, y)
LaunchSerial ==
    /\ pc = "level1"
    /\ AllWarpsDone
    /\ serial' = [n |-> tail, end |-> num_entries, seen |-> <<>>]
    /\ warp' = <<>>
    /\ log' = Append(log, "serial")
    /\ pc' = "serial"
    /\ UNCHANGED <<inputs, opi, y, acc, bound, temp, temp_rows, temp_vals, red, results, kept>>

\* one iteration of the serial kernel: y[I[n]] += V[n] * x[J[n]]
SerialStep ==
    /\ pc \in {"serial", "serial_only"}
    /\ serial.n < serial.end
    /\ LET n == serial.n
       IN  /\ y' = [y EXCEPT ![At(I, n)] = Add(@, ProductDirect(n))]
           /\ acc' = acc \cup {Event("serial", 0, At(I, n), "plain", <<n, "tail">>,
                                     ProductDirect(n))}
           /\ serial' = [serial EXCEPT !.n = n + 1, !.seen = Append(@, n)]
    /\ UNCHANGED <<inputs, opi, pc, bound, temp, temp_rows, temp_vals, warp, red, log, results, kept>>

\* mutant: the level-2 dispatch is skipped
AfterSerialSkipsLevel2 == IF pc = "serial_only" THEN "returned" ELSE "unbind"

\* the statement after the serial dispatch: "return" (small matrix), the
\* level-2 dispatch (deferred) or "if (UseCache) unbind_x" (atomic)
AfterSerial == IF pc = "serial_only" THEN "returned"
               ELSE IF Atomic THEN "unbind" ELSE "launch2"

SerialDone ==
    /\ pc \in {"serial", "serial_only"}
    /\ serial.n >= serial.end
    /\ pc' = AfterSerial
    /\ UNCHANGED <<inputs, opi, device, log, results, kept>>

\* ------------------------------------------------------------------ level 2

\* threads of the <<<1, BLOCK_SIZE>>> dispatch
Threads == 0 .. (REDUCE_BLOCK - 1)

\* end = num_warps - (num_warps & (BLOCK_SIZE - 1))
reduce_end == active_warps - (active_warps % REDUCE_BLOCK)

\* rows[BLOCK_SIZE] = -1; vals[BLOCK_SIZE] = 0; the rest is not initialised
Launch2 ==
    /\ pc = "launch2"
    /\ red' = [i |-> 0,
               rows |-> [t \in 0 .. REDUCE_BLOCK |-> IF t = REDUCE_BLOCK THEN -1 ELSE Uninit],
               vals |-> [t \in 0 .. REDUCE_BLOCK |-> Zero]]
    /\ log' = Append(log, "reduce_update")
    /\ pc' = "reduce"
    /\ UNCHANGED <<inputs, opi, y, acc, bound, temp, temp_rows, temp_vals, warp, serial, results, kept>>

\* y[rows[t]] += vals[t] for every thread of F, one after the other
RECURSIVE FlushAll(_, _, _, _)
FlushAll(yy, rws, vls, F) ==
    IF F = {} THEN yy
    ELSE LET t == CHOOSE t \in F : TRUE
         IN  FlushAll([yy EXCEPT ![rws[t]] = Add(@, vls[t])], rws, vls, F \ {t})

\* one iteration of "while (i < end)": a full block of carries
ReduceFull ==
    /\ pc = "reduce"
    /\ red.i < reduce_end
    /\ LET rws == [t \in 0 .. REDUCE_BLOCK |->
                     IF t \in Threads THEN temp_rows[red.i + t + 1] ELSE red.rows[t]]
           vl0 == [t \in 0 .. REDUCE_BLOCK |->
                     IF t \in Threads THEN temp_vals[red.i + t + 1] ELSE red.vals[t]]
           vls == segreduce_block(rws, vl0)
           F   == { t \in Threads : rws[t] # rws[t + 1] }
       IN  /\ y' = FlushAll(y, rws, vls, F)
           /\ acc' = acc \cup { Event("reduce", t, rws[t], "plain", <<red.i, "full">>, vls[t])
                                : t \in F }
           /\ red' = [i |-> red.i + REDUCE_BLOCK, rows |-> rws, vals |-> vls]
    /\ UNCHANGED <<inputs, opi, pc, bound, temp, temp_rows, temp_vals, warp, serial, log, results, kept>>

\* "if (end < num_warps)": the last, partial block, padded with row -1
ReduceRest ==
    /\ pc = "reduce"
    /\ red.i >= reduce_end
    /\ IF reduce_end < active_warps
         THEN LET rws == [t \in 0 .. REDUCE_BLOCK |->
                            IF t \notin Threads THEN red.rows[t]
                            ELSE IF red.i + t < active_warps
                              THEN temp_rows[red.i + t + 1] ELSE -1]
                  vl0 == [t \in 0 .. REDUCE_BLOCK |->
                            IF t \notin Threads THEN red.vals[t]
                            ELSE IF red.i + t < active_warps
                              THEN temp_vals[red.i + t + 1] ELSE Zero]
                  vls == segreduce_block(rws, vl0)
                  F   == { t \in Threads : red.i + t < active_warps /\ rws[t] # rws[t + 1] }
              IN  /\ y' = FlushAll(y, rws, vls, F)
                  /\ acc' = acc \cup { Event("reduce", t, rws[t], "plain",
                                             <<red.i, "rest">>, vls[t]) : t \in F }
                  /\ red' = [i |-> red.i, rows |-> rws, vals |-> vls]
         ELSE UNCHANGED <<y, acc, red>>
    /\ pc' = "free"
    /\ UNCHANGED <<inputs, opi, bound, temp, temp_rows, temp_vals, warp, serial, log, results, kept>>

\* cusp::delete_device_array(temp_rows); cusp::delete_device_array(temp_vals);
Free ==
    /\ pc = "free"
    /\ temp' = "freed"
    /\ red' = NoRed
    /\ log' = Append(log, "free")
    /\ pc' = "unbind"
    /\ UNCHANGED <<inputs, opi, y, acc, bound, temp_rows, temp_vals, warp, serial, results, kept>>

\* if (UseCache) unbind_x(d_x); and the return
Unbind ==
    /\ pc = "unbind"
    /\ bound' = IF UseCache THEN bound - 1 ELSE bound
    /\ log' = IF UseCache THEN Append(log, "unbind_x") ELSE log
    /\ pc' = "returned"
    /\ UNCHANGED <<inputs, opi, y, acc, temp, temp_rows, temp_vals, warp, serial, red, results, kept>>

\* the caller keeps the resulting y of the call and goes on to the next
Record ==
    /\ pc = "returned"
    /\ results' = Append(results, [r \in RowIds |-> y[r].v])
    /\ kept' = IF Atomic THEN kept ELSE Append(kept, acc)
    /\ pc' = "idle"
    /\ UNCHANGED <<inputs, opi, device, log>>

\* ------------------------------------------------------------------ spec

Return1 == \E w \in DOMAIN warp : WarpReturn(w)
Load1   == \E w \in DOMAIN warp : WarpLoad(w)
CarryWrite1 == \E w \in DOMAIN warp : WarpCarryWrite(w)
Scan1   == \E w \in DOMAIN warp : WarpScan(w)
Flush1  == \E w \in DOMAIN warp : WarpFlush(w)
Final1  == \E w \in DOMAIN warp : WarpFinal(w)

Next ==
    \/ Call
    \/ ReturnEmpty
    \/ SerialOnly
    \/ Plan
    \/ Alloc
    \/ Launch1
    \/ Return1
    \/ Load1
    \/ CarryWrite1
    \/ Scan1
    \/ Flush1
    \/ Final1
    \/ LaunchSerial
    \/ SerialStep
    \/ SerialDone
    \/ Launch2
    \/ ReduceFull
    \/ ReduceRest
    \/ Free
    \/ Unbind
    \/ Record

Spec == Init /\ [][Next]_vars

\* ------------------------------------------------------------------ planner alone

MaxPlanEntries == 24
PlanWarpSizes  == {2, 4, 8}
PlanWarpsPerBlock == {1, 2, 4}
PlanMaxBlocks  == {1, 2, 3}

\* the planner on matrices of up to MaxPlanEntries entries (one row, since the
\* planner reads num_entries only)
PlanInit ==
    /\ \E n \in 0 .. MaxPlanEntries :
         /\ I = [e \in 1 .. n |-> 0]
         /\ J = [e \in 1 .. n |-> 0]
         /\ V = [e \in 1 .. n |-> 1]
    /\ x = [c \in ColIds |-> 1]
    /\ y0 = [r \in RowIds |-> 0]
    /\ WARP_SIZE \in PlanWarpSizes
    /\ WARPS_PER_BLOCK \in PlanWarpsPerBlock
    /\ MAX_BLOCKS \in PlanMaxBlocks
    /\ REDUCE_BLOCK \in ReduceBlockChoices
    /\ opi \in {0, 2}
    /\ pc = "idle"
    /\ y = [r \in RowIds |-> [v |-> y0[r], src |-> EmptyBag]]
    /\ acc = {}
    /\ bound = 0
    /\ temp = "none"
    /\ temp_rows = <<>>
    /\ temp_vals = <<>>
    /\ warp = <<>>
    /\ serial = NoSerial
    /\ red = NoRed
    /\ log = <<>>
    /\ results = <<>>
    /\ kept = <<>>

PlanNext == Call \/ Plan

SpecPlan == PlanInit /\ [][PlanNext]_vars

\* the entry indices n that the lanes of warp w load in its strides
Visited(w) ==
    { LaneBegin(w, p[1]) + p[2] * WARP_SIZE :
        p \in { q \in Lanes \X (0 .. num_units) : LaneIn(w, q[1], q[2]) } }

\* ------------------------------------------------------------------ long intervals

\* matrices of StrideUnits full strides (and at most one entry more) given to
\* fewer warps than strides, so that a warp walks its interval in several
\* strides; with MAX_BLOCKS = 3 a launched warp is left without an interval
StrideUnits     == 4
StrideMaxBlocks == {2, 3}

StridesInit ==
    /\ WARP_SIZE = 2
    /\ \E n \in {2 * StrideUnits, 2 * StrideUnits + 1} :
          I \in { s \in [1 .. n -> RowIds] : Sorted(s) }
    /\ J = [e \in 1 .. Len(I) |-> e % Cardinality(ColIds)]
    /\ V = [e \in 1 .. Len(I) |-> 1 + (e % 3)]
    /\ x = [c \in ColIds |-> 3 - 2 * c]
    /\ y0 = [r \in RowIds |-> 10 * (r + 1)]
    /\ WARPS_PER_BLOCK = 1
    /\ MAX_BLOCKS \in StrideMaxBlocks
    /\ REDUCE_BLOCK \in ReduceBlockChoices
    /\ opi = 0
    /\ pc = "idle"
    /\ y = [r \in RowIds |-> [v |-> y0[r], src |-> EmptyBag]]
    /\ acc = {}
    /\ bound = 0
    /\ temp = "none"
    /\ temp_rows = <<>>
    /\ temp_vals = <<>>
    /\ warp = <<>>
    /\ serial = NoSerial
    /\ red = NoRed
    /\ log = <<>>
    /\ results = <<>>
    /\ kept = <<>>

\* num_entries >= WARP_SIZE: every step of the calls but the two early returns
StridesNext ==
    \/ Call
    \/ Plan
    \/ Alloc
    \/ Launch1
    \/ Return1
    \/ Load1
    \/ CarryWrite1
    \/ Scan1
    \/ Flush1
    \/ Final1
    \/ LaunchSerial
    \/ SerialStep
    \/ SerialDone
    \/ Launch2
    \/ ReduceFull
    \/ ReduceRest
    \/ Free
    \/ Unbind
    \/ Record

SpecStrides == StridesInit /\ [][StridesNext]_vars

\* ------------------------------------------------------------------ scatter update

\* the host_method branch of __spmv_coo_flat (disabled in the source by
\* "const bool host_method = false") and its kernel, started where level 1 and
\* the tail kernel have ended with up to MaxCarries carries in the buffer
MaxCarries == 4

\* the loop over h_temp_rows: carries of equal adjacent rows are summed into
\* the first of them; u is unique_rows, both indices 0-based
RECURSIVE MergeFrom(_, _, _, _)
MergeFrom(rws, vls, u, start) ==
    IF start >= Len(rws) THEN [rows |-> rws, vals |-> vls, n |-> u + 1]
    ELSE IF rws[u + 1] = rws[start + 1]
      THEN MergeFrom(rws, [vls EXCEPT ![u + 1] = Add(@, vls[start + 1])], u, start + 1)
      ELSE MergeFrom([rws EXCEPT ![u + 2] = rws[start + 1]],
                     [vls EXCEPT ![u + 2] = vls[start + 1]], u + 1, start + 1)

\* mutant: the host leaves the carries as they are
MergeCarriesSkipped(rws, vls) == [rows |-> rws, vals |-> vls, n |-> Len(rws)]

MergeCarries(rws, vls) == MergeFrom(rws, vls, 0, 1)

\* the threads of the scatter kernel before their first iteration, num_warps = n
ScatterThreads(n) ==
    [n  |-> n,
     i  |-> [t \in Threads |-> t],
     ph |-> [t \in Threads |-> "read"],
     rd |-> [t \in Threads |-> Zero]]

\* every warp has one stride of two entries of one row: level 1 leaves y as it
\* was and one carry per warp in the buffer; the rows of the carries are any
\* sorted sequence
ScatterInit ==
    /\ WARP_SIZE = 2
    /\ \E n \in 1 .. MaxCarries :
          \E rws \in { s \in [1 .. n -> RowIds] : Sorted(s) } :
              /\ I = [e \in 1 .. 2 * n |-> rws[(e + 1) \div 2]]
              /\ temp_rows = rws
    /\ J = [e \in 1 .. Len(I) |-> e % Cardinality(ColIds)]
    /\ V = [e \in 1 .. Len(I) |-> 1 + (e % 3)]
    /\ x = [c \in ColIds |-> 3 - 2 * c]
    /\ y0 = [r \in RowIds |-> 10 * (r + 1)]
    /\ WARPS_PER_BLOCK = 1
    /\ MAX_BLOCKS = MaxCarries
    /\ REDUCE_BLOCK \in ReduceBlockChoices
    /\ opi = 1
    /\ pc = "launch2"
    /\ y = [r \in RowIds |-> [v |-> y0[r], src |-> EmptyBag]]
    /\ acc = {}
    /\ bound = 0
    /\ temp = "allocated"
    /\ temp_vals = [s \in 1 .. Len(temp_rows) |->
                      Add(Product(2 * s - 1), Product(2 * s - 2))]
    /\ warp = <<>>
    /\ serial = [n |-> Len(I), end |-> Len(I), seen |-> <<>>]
    /\ red = NoRed
    /\ log = <<"alloc", "level1", "serial">>
    /\ results = <<>>
    /\ kept = <<>>

\* if (host_method): the carries are copied to the host, merged, and the first
\* unique_rows of them copied back
HostMerge ==
    /\ pc = "launch2"
    /\ LET m == MergeCarries(temp_rows, temp_vals)
       IN  /\ temp_rows' = [s \in DOMAIN temp_rows |->
                               IF s <= m.n THEN m.rows[s] ELSE temp_rows[s]]
           /\ temp_vals' = [s \in DOMAIN temp_vals |->
                               IF s <= m.n THEN m.vals[s] ELSE temp_vals[s]]
           /\ red' = ScatterThreads(m.n)
    /\ log' = Append(log, "merge")
    /\ pc' = "launch_scatter"
    /\ UNCHANGED <<inputs, opi, y, acc, bound, temp, warp, serial, results, kept>>

\* spmv_coo_scatter_update_kernel <<<1, 512>>> (unique_rows, temp_rows, temp_vals, d_y)
LaunchScatter ==
    /\ pc = "launch_scatter"
    /\ log' = Append(log, "scatter_update")
    /\ pc' = "scatter"
    /\ UNCHANGED <<inputs, opi, device, results, kept>>

\* the kernel given the carry buffer as level 1 left it
LaunchScatterUnmerged ==
    /\ pc = "launch2"
    /\ red' = ScatterThreads(Len(temp_rows))
    /\ log' = Append(log, "scatter_update")
    /\ pc' = "scatter"
    /\ UNCHANGED <<inputs, opi, y, acc, bound, temp, temp_rows, temp_vals, warp, serial,
                   results, kept>>

\* thread t reads y[temp_rows[i]] for its "+="
ScatterRead(t) ==
    /\ pc = "scatter"
    /\ red.ph[t] = "read"
    /\ red.i[t] < red.n
    /\ red' = [red EXCEPT !.ph[t] = "write", !.rd[t] = y[temp_rows[red.i[t] + 1]]]
    /\ UNCHANGED <<inputs, opi, pc, y, acc, bound, temp, temp_rows, temp_vals, warp, serial,
                   log, results, kept>>

\* thread t writes y[temp_rows[i]] and goes on to i + BLOCK_SIZE
ScatterWrite(t) ==
    /\ pc = "scatter"
    /\ red.ph[t] = "write"
    /\ LET s == red.i[t] + 1
       IN  /\ y' = [y EXCEPT ![temp_rows[s]] = Add(red.rd[t], temp_vals[s])]
           /\ acc' = acc \cup {Event("scatter", t, temp_rows[s], "plain",
                                     <<red.i[t], "scatter">>, temp_vals[s])}
    /\ red' = [red EXCEPT !.ph[t] = "read", !.i[t] = @ + REDUCE_BLOCK]
    /\ UNCHANGED <<inputs, opi, pc, bound, temp, temp_rows, temp_vals, warp, serial,
                   log, results, kept>>

\* every thread has left its loop: the kernel has ended
ScatterDone ==
    /\ pc = "scatter"
    /\ \A t \in Threads : red.ph[t] = "read" /\ red.i[t] >= red.n
    /\ pc' = "free"
    /\ UNCHANGED <<inputs, opi, device, log, results, kept>>

ScatterRead1  == \E t \in Threads : ScatterRead(t)
ScatterWrite1 == \E t \in Threads : ScatterWrite(t)

ScatterNext ==
    \/ HostMerge
    \/ LaunchScatter
    \/ LaunchScatterUnmerged
    \/ ScatterRead1
    \/ ScatterWrite1
    \/ ScatterDone
    \/ Free
    \/ Unbind

SpecScatter == ScatterInit /\ [][ScatterNext]_vars

\* ------------------------------------------------------------------ overlapping dispatches

\* The atomic operations when the level-1 and serial dispatches are not
\* ordered by the executor: __spmv_coo_flat_atomic has no statement between
\* the two dispatches, so the serial kernel then runs while the warps of
\* level 1 do, its "y[I[n]] += ..." being a read step and a write step.
OverlapEntries == 3 .. 5

OverlapInit ==
    /\ WARP_SIZE = 2
    /\ \E n \in OverlapEntries : I \in { s \in [1 .. n -> RowIds] : Sorted(s) }
    /\ J = [e \in 1 .. Len(I) |-> e % Cardinality(ColIds)]
    /\ V = [e \in 1 .. Len(I) |-> 1 + (e % 3)]
    /\ x = [c \in ColIds |-> 3 - 2 * c]
    /\ y0 = [r \in RowIds |-> 10 * (r + 1)]
    /\ WARPS_PER_BLOCK \in WarpsPerBlockChoices
    /\ MAX_BLOCKS = 1
    /\ REDUCE_BLOCK \in ReduceBlockChoices
    /\ opi = 2
    /\ pc = "idle"
    /\ y = [r \in RowIds |-> [v |-> y0[r], src |-> EmptyBag]]
    /\ acc = {}
    /\ bound = 0
    /\ temp = "none"
    /\ temp_rows = <<>>
    /\ temp_vals = <<>>
    /\ warp = <<>>
    /\ serial = NoSerial
    /\ red = NoRed
    /\ log = <<>>
    /\ results = <<>>
    /\ kept = <<>>

SerialLaunched == \E i \in DOMAIN log : log[i] = "serial"

\* spmv_coo_serial_kernel <<<1,1>>> (...), dispatched while level 1 runs
OverlapLaunchSerial ==
    /\ pc = "level1"
    /\ ~SerialLaunched
    /\ serial' = [n |-> tail, end |-> num_entries, seen |-> <<>>, ph |-> "read", rd |-> Zero]
    /\ log' = Append(log, "serial")
    /\ UNCHANGED <<inputs, opi, pc, y, acc, bound, temp, temp_rows, temp_vals, warp, red,
                   results, kept>>

\* y[I[n]] += V[n] * x[J[n]]: the read
OverlapSerialRead ==
    /\ pc = "level1"
    /\ SerialLaunched
    /\ serial.n < serial.end /\ serial.ph = "read"
    /\ serial' = [serial EXCEPT !.ph = "write", !.rd = y[At(I, serial.n)]]
    /\ UNCHANGED <<inputs, opi, pc, y, acc, bound, temp, temp_rows, temp_vals, warp, red,
                   log, results, kept>>

\* y[I[n]] += V[n] * x[J[n]]: the write
OverlapSerialWrite ==
    /\ pc = "level1"
    /\ SerialLaunched
    /\ serial.n < serial.end /\ serial.ph = "write"
    /\ LET n == serial.n
       IN  /\ y' = [y EXCEPT ![At(I, n)] = Add(serial.rd, ProductDirect(n))]
           /\ acc' = acc \cup {Event("serial", 0, At(I, n), "plain", <<n, "tail">>,
                                     ProductDirect(n))}
           /\ serial' = [serial EXCEPT !.n = n + 1, !.seen = Append(@, n), !.ph = "read"]
    /\ UNCHANGED <<inputs, opi, pc, bound, temp, temp_rows, temp_vals, warp, red, log,
                   results, kept>>

\* both kernels have ended
OverlapDone ==
    /\ pc = "level1"
    /\ AllWarpsDone
    /\ SerialLaunched /\ serial.n >= serial.end
    /\ warp' = <<>>
    /\ pc' = "unbind"
    /\ UNCHANGED <<inputs, opi, y, acc, bound, temp, temp_rows, temp_vals, serial, red,
                   log, results, kept>>

OverlapNext ==
    \/ Call
    \/ Plan
    \/ Launch1
    \/ Return1
    \/ Load1
    \/ CarryWrite1
    \/ Scan1
    \/ Flush1
    \/ Final1
    \/ OverlapLaunchSerial
    \/ OverlapSerialRead
    \/ OverlapSerialWrite
    \/ OverlapDone
    \/ Unbind
    \/ Record

SpecOverlap == OverlapInit /\ [][OverlapNext]_vars

\* ------------------------------------------------------------------ reference

\* entries of row r
RowEntries(r) == { e \in 0 .. (num_entries - 1) : At(I, e) = r }

RECURSIVE SumProducts(_)
SumProducts(S) ==
    IF S = {} THEN 0
    ELSE LET e == CHOOSE e \in S : TRUE
         IN  At(V, e) * x[At(J, e)] + SumProducts(S \ {e})

\* the serial reference: y0[r] plus the sum of the products of row r
Reference(r) == y0[r] + SumProducts(RowEntries(r))

Returned == pc = "returned"

\* the first entry of a later unit continues the row of the entry before it
Straddles ==
    /\ num_entries >= WARP_SIZE
    /\ \E w \in 1 .. (active_warps - 1) :
         At(I, w * interval_size - 1) = At(I, w * interval_size)

\* ------------------------------------------------------------------ claims

\* C1: when a call of the deferred-reduction policy (spmv_coo_flat,
\* spmv_coo_flat_tex) has returned, y[r] = y0[r] + the sum of the products of
\* the entries of row r, for every row r, whatever WARP_SIZE and the unit limit.
C1_DeferredMatchesReference ==
    (Returned /\ ~Atomic) => \A r \in RowIds : y[r].v = Reference(r)

C1_Witness ==
    /\ Returned /\ ~Atomic /\ Straddles
    /\ num_entries > tail
    /\ \E r \in RowIds : y0[r] # 0 /\ RowEntries(r) # {}

\* C2: when a call of the atomic policy (spmv_coo_flat_atomic,
\* spmv_coo_flat_atomic_tex) has returned, under every interleaving of the
\* warps of the level-1 dispatch, y[r] = y0[r] + the sum of the products of
\* the entries of row r, also for a row that straddles a unit boundary.
C2_AtomicMatchesReference ==
    (Returned /\ Atomic) => \A r \in RowIds : y[r].v = Reference(r)

C2_Witness ==
    /\ Returned /\ Atomic /\ Straddles
    /\ \E e \in acc : e.kind = "atomic" /\ e.unit = "warp" /\ e.id > 0

\* C3: the y vectors the four operations end with, started from the same
\* matrix, x and initial y, are equal.
C3_FourOperationsAgree ==
    \A a, b \in DOMAIN results : results[a] = results[b]

C3_Witness ==
    /\ Len(results) = Len(Ops)
    /\ num_entries >= 2 * WARP_SIZE
    /\ \E r \in RowIds : results[1][r] # y0[r]

\* C4: no entry is ever accumulated into a row other than its own or more than
\* once, and when the call has returned every entry has been accumulated into
\* y[I[e]] exactly once (both policies, and the small-matrix path).
C4_EachEntryOnce ==
    /\ \A r \in RowIds : \A e \in 0 .. (num_entries - 1) :
         CopiesIn(e, y[r].src) <= (IF At(I, e) = r THEN 1 ELSE 0)
    /\ Returned => \A r \in RowIds : y[r].src = SetToBag(RowEntries(r))

C4_Witness ==
    /\ Returned
    /\ \E e \in acc : e.unit = "warp" /\ e.kind = "plain"
    /\ \E e \in acc : e.unit = "serial"
    /\ \E e \in acc : e.unit = "reduce" \/ e.kind = "atomic"

\* C5: a call with num_entries = 0 returns without writing y, without
\* dispatching a kernel, without allocating the carry buffer and without
\* binding the texture.
C5_EmptyMatrixNoOp ==
    (num_entries = 0 /\ pc \notin {"idle", "entry"}) =>
        /\ pc = "returned"
        /\ \A r \in RowIds : y[r] = [v |-> y0[r], src |-> EmptyBag]
        /\ log = <<>>
        /\ acc = {}
        /\ temp = "none"
        /\ bound = 0

C5_Witness ==
    /\ num_entries = 0 /\ Returned /\ opi = Len(Ops)
    /\ \E r \in RowIds : y0[r] # 0

\* C6: a call with 0 < num_entries < WARP_SIZE dispatches the serial kernel
\* over all entries [0, num_entries) and nothing else: no level-1 or level-2
\* kernel, no carry buffer, no binding, no failure; the y it returns is the
\* serial reference.
C6_SmallMatrixSerialOnly ==
    (0 < num_entries /\ num_entries < WARP_SIZE /\ pc \notin {"idle", "entry"}) =>
        /\ pc \in {"serial_only", "returned"}
        /\ log = <<"serial">>
        /\ temp = "none"
        /\ bound = 0
        /\ \A e \in acc : e.unit = "serial"
        /\ Returned =>
             /\ serial.seen = [i \in 1 .. num_entries |-> i - 1]
             /\ \A r \in RowIds : y[r].v = Reference(r)

C6_Witness ==
    /\ Returned /\ num_entries = WARP_SIZE - 1 /\ WARP_SIZE = 4
    /\ opi = 2

Planned == pc \in {"alloc", "launch1"}

\* C7: for num_entries >= W, with num_units = num_entries / W, active_units =
\* min(num_units, U), iters = ceil(num_units / active_units), interval_size =
\* W * iters and tail = num_units * W: the entries the units load are the
\* intervals [w * interval_size, min((w+1) * interval_size, tail)), which are
\* in order, pairwise disjoint and cover exactly [0, tail); tail is a multiple
\* of W.
C7_IntervalsPartitionTail ==
    Planned =>
      LET W  == WARP_SIZE
          nu == num_entries \div W
          au == Min(nu, WARPS_PER_BLOCK * MAX_BLOCKS)
          it == (nu + au - 1) \div au
          is == W * it
          tl == nu * W
          Interval(w) == { n \in 0 .. (tl - 1) : w * is <= n /\ n < Min((w + 1) * is, tl) }
      IN  /\ tl = tail /\ is = interval_size /\ au = num_warps
          /\ tl % W = 0
          /\ \A w \in Launched : Visited(w) = Interval(w)
          /\ \A w \in Launched : w >= au => Visited(w) = {}
          /\ \A n \in 0 .. (tl - 1) :
               Cardinality({ w \in 0 .. (au - 1) : n \in Visited(w) }) = 1
          /\ \A w \in Launched : Visited(w) \subseteq 0 .. (tl - 1)
          /\ \A w1, w2 \in Launched :
               w1 < w2 => \A a \in Visited(w1), b \in Visited(w2) : a < b

C7_Witness ==
    /\ Planned
    /\ num_units > WARPS_PER_BLOCK * MAX_BLOCKS
    /\ num_units % num_warps # 0
    /\ active_warps < num_warps
    /\ num_entries > tail

\* C8: for num_entries >= W the serial kernel dispatched after level 1
\* processes exactly the entries [tail, num_entries), tail = (num_entries / W)
\* * W, fewer than W of them, each once and in index order, adding
\* V[e] * x[J[e]] to y[I[e]], and no entry below tail.
C8_TailHandlerRange ==
    (num_entries >= WARP_SIZE /\ pc \in {"serial", "launch2", "reduce", "free", "unbind", "returned"}) =>
      LET tl == (num_entries \div WARP_SIZE) * WARP_SIZE
          S  == { e \in acc : e.unit = "serial" }
      IN  /\ num_entries - tl < WARP_SIZE
          /\ \A i \in DOMAIN serial.seen : serial.seen[i] = tl + i - 1
          /\ Len(serial.seen) <= num_entries - tl
          /\ pc # "serial" => Len(serial.seen) = num_entries - tl
          /\ \A e \in S : \E i \in DOMAIN serial.seen :
                /\ e.src = SetToBag({serial.seen[i]})
                /\ e.row = At(I, serial.seen[i])
          /\ Cardinality(S) = Len(serial.seen)

C8_Witness ==
    /\ pc = "launch2" /\ opi = 1
    /\ num_entries = WARP_SIZE + 3
    /\ Len(serial.seen) = 3

\* C9: in the cached-read operations the texture binding of x is made before
\* the first kernel dispatch, at most one binding is live at any moment, and
\* none is live once the call has ended, by return or by a failed allocation
\* of the carry buffer.
C9_BindingScoped ==
    /\ bound <= 1
    /\ pc \in {"idle", "returned", "raised"} => bound = 0
    /\ (UseCache /\ \E i \in DOMAIN log : log[i] = "level1") => log[1] = "bind_x"

\* C10: in the deferred policy a failed allocation of the carry buffer ends
\* the call with the failure raised to the caller; the level-1 kernel is not
\* dispatched after it.
C10_AllocFailureRaised ==
    \A i \in DOMAIN log :
        log[i] = "bad_alloc" => (i = Len(log) /\ pc = "raised" /\ warp = <<>>)

C10_Witness ==
    /\ pc = "raised"
    /\ log[Len(log)] = "bad_alloc"
    /\ opi = 2

\* C11: in the deferred policy the level-2 kernel reads a slot of the carry
\* buffer only after the unit of that slot has written its final carry: while
\* a warp of level 1 is still running level 2 has not been dispatched, and
\* from the dispatch of level 2 on every slot it reads holds a written carry.
C11_Level2ReadsWrittenCarries ==
    /\ (\E w \in DOMAIN warp : warp[w].pc # "done") =>
          \A i \in DOMAIN log : log[i] # "reduce_update"
    /\ pc \in {"launch2", "reduce", "free"} =>
          /\ num_entries >= WARP_SIZE /\ ~Atomic
          /\ DOMAIN temp_rows = 1 .. active_warps
          /\ \A s \in 1 .. active_warps : temp_rows[s] \in RowIds
    /\ pc = "free" =>
          \A t \in Threads : red.rows[t] \in RowIds \cup {-1}

C11_Witness ==
    /\ pc = "free"
    /\ active_warps > REDUCE_BLOCK
    /\ \E s \in 2 .. active_warps : temp_rows[s] # temp_rows[1]

\* the kernel dispatches of the current call, in the order they were made
IsDispatch(e) == e \in {"level1", "serial", "reduce_update"}

Dispatches == SelectSeq(log, IsDispatch)

IsPrefix(a, b) == Len(a) <= Len(b) /\ \A i \in DOMAIN a : a[i] = b[i]

\* the order a call with num_entries >= WARP_SIZE is said to finish with
DispatchOrder(deferred) ==
    (num_entries >= WARP_SIZE /\ pc # "serial_only") =>
      LET order == IF Atomic THEN <<"level1", "serial">> ELSE deferred
      IN  /\ IsPrefix(Dispatches, order)
          /\ Returned => Dispatches = order

\* C12 (as stated): in the deferred policy the level-1 kernel is dispatched
\* first, then the level-2 kernel, and the tail handler last; in the atomic
\* policy the level-1 kernel first and the tail handler after it.
C12_TailHandlerLast == DispatchOrder(<<"level1", "reduce_update", "serial">>)

\* C12 (amended): in the deferred policy the level-1 kernel is dispatched
\* first, then the tail handler, and the level-2 kernel last; in the atomic
\* policy the level-1 kernel first and the tail handler after it.
C12_Level2Last == DispatchOrder(<<"level1", "serial", "reduce_update">>)

C12_Witness ==
    /\ Returned /\ opi = 1
    /\ num_entries > tail /\ tail > 0
    /\ Len(Dispatches) = 3
    /\ \E e \in acc : e.unit = "reduce"

\* C13: the deferred policy does not depend on the schedule of the level-1
\* units: two calls of it on the same matrix, x and initial y, each under any
\* interleaving of its warps, end with the same y, and every y[row] has
\* received the same addends from the same units in the same order.
C13_ScheduleIndependent ==
    \A a, b \in DOMAIN kept :
        /\ kept[a] = kept[b]
        /\ a \in DOMAIN results /\ b \in DOMAIN results /\ results[a] = results[b]

C13_Witness ==
    /\ Len(kept) = 2
    /\ Straddles
    /\ \E e1, e2 \in kept[2] :
          /\ e1.unit = "warp" /\ e1.id >= 1
          /\ e2.unit = "reduce" /\ e2.row = e1.row /\ e2.ord # e1.ord

\* the accumulations into y made by the warps of the level-1 dispatch
Level1Adds == { e \in acc : e.unit = "warp" }

\* C14: in the level-1 dispatch of the deferred policy no y[r] is added to by
\* two different units: every add is a plain one, and the sets of rows that
\* distinct units add to are pairwise disjoint.
C14_Level1RowsDisjoint ==
    ~Atomic =>
      \A e1, e2 \in Level1Adds :
          /\ e1.kind = "plain"
          /\ e1.row = e2.row => e1.id = e2.id

C14_Witness ==
    /\ ~Atomic /\ pc = "level1" /\ Straddles
    /\ \E e1, e2 \in Level1Adds :
          /\ e1.id < e2.id
          /\ e2.row = At(I, e2.id * interval_size - 1)

\* the plain "y[carry_idx] += carry_val" of lane 0 at the start of a stride
CarryFlushes == { e \in Level1Adds : e.kind = "plain" /\ e.at[2] = "carry" }

\* the entries of the interval of warp w
UnitInterval(w) == LaneBegin(w, 0) .. (LaneEnd(w, 0) - 1)

\* the entries of stride k of warp w
StrideEntries(w, k) ==
    { n \in UnitInterval(w) : (n - LaneBegin(w, 0)) \div WARP_SIZE = k }

\* C15 (as stated): when a warp at the start of a stride adds its old carry
\* to y[carry row] with a plain add, every entry of that row lies inside the
\* warp's own interval, in its previous stride, the row has no later entry,
\* and no other warp of the dispatch adds to that row.
C15_CarryRowInterior ==
    \A e \in CarryFlushes :
        /\ RowEntries(e.row) \subseteq UnitInterval(e.id)
        /\ RowEntries(e.row) \subseteq StrideEntries(e.id, e.at[1] - 1)
        /\ \A e2 \in Level1Adds : e2.row = e.row => e2.id = e.id

\* C15 (amended): when a warp at the start of stride k adds its old carry to
\* y[carry row] with a plain add, the row has no entry from stride k on, the
\* carry is the sum of all entries of the row inside the warp's interval
\* (which may lie in several of its earlier strides), and no other warp of the
\* level-1 dispatch adds to that row; in the atomic kernel the row lies inside
\* the warp's interval, in the deferred kernel it may begin in an earlier one.
C15_CarryComplete ==
    \A e \in CarryFlushes :
        LET mine == RowEntries(e.row) \cap UnitInterval(e.id)
        IN  /\ \A n \in RowEntries(e.row) :
                  n < LaneBegin(e.id, 0) + e.at[1] * WARP_SIZE
            /\ mine # {} /\ e.src = SetToBag(mine)
            /\ \A e2 \in Level1Adds : e2.row = e.row => e2.id = e.id
            /\ Atomic => RowEntries(e.row) \subseteq UnitInterval(e.id)

C15_Witness ==
    /\ ~Atomic /\ pc = "level1"
    /\ \E e \in CarryFlushes :
          /\ e.id >= 1
          /\ At(I, LaneBegin(e.id, 0) - 1) = e.row
          /\ e.at[1] >= 1

\* C16: in the level-1 dispatch of the atomic policy a row that some unit
\* adds to with a plain add is added to by that unit only, and a row that two
\* or more units add to is added to with atomic adds only.
C16_SharedRowsAtomicOnly ==
    Atomic =>
      \A e1, e2 \in Level1Adds :
          (e1.row = e2.row /\ e1.id # e2.id) =>
              (e1.kind = "atomic" /\ e2.kind = "atomic")

C16_Witness ==
    /\ Atomic /\ pc = "level1"
    /\ \E e1, e2, e3 \in Level1Adds :
          /\ e1.row = e2.row /\ e1.id < e2.id
          /\ e3.kind = "plain" /\ e3.id = e2.id

\* the accumulations into y made by the threads of the level-2 kernel
Level2Adds == { e \in acc : e.unit = "reduce" }

\* the slots of the carry buffer and the rows they hold
Slots == 1 .. active_warps

CarryRows == { temp_rows[s] : s \in Slots }

\* the slots loaded by the iteration of the level-2 kernel that starts at
\* carry i (0-based): a block of BLOCK_SIZE carries, the last one shorter
BlockSlots(i) == { s \in Slots : i < s /\ s <= i + REDUCE_BLOCK }

BlockBases == { i \in 0 .. active_warps : i % REDUCE_BLOCK = 0 /\ i < active_warps }

\* the entries summed in the members of S (events, or carries with their slot)
RECURSIVE BagSum(_)
BagSum(S) ==
    IF S = {} THEN EmptyBag
    ELSE LET e == CHOOSE e \in S : TRUE
         IN  e.src (+) BagSum(S \ {e})

\* C17 (as stated): when the level-2 kernel has ended, every distinct row of
\* the carry buffer, whatever the length of the buffer, has received exactly
\* one add from level 2, and no two adds of level 2 go to the same y[row].
C17_OneAddPerRow ==
    pc = "free" =>
      /\ \A r \in CarryRows : Cardinality({ e \in Level2Adds : e.row = r }) = 1
      /\ \A e1, e2 \in Level2Adds : e1.row = e2.row => e1 = e2

\* C17 (amended): when the level-2 kernel has ended, every distinct row of
\* the carry buffer has received exactly one add from each iteration of the
\* kernel (block of BLOCK_SIZE consecutive carries) that holds a carry of that
\* row, hence one add in all when the buffer is no longer than BLOCK_SIZE; no
\* two threads add to the same y[row] in one iteration; and the adds to a row
\* sum up to the carries of that row.
C17_OneAddPerRowPerBlock ==
    pc = "free" =>
      /\ \A i \in BlockBases : \A r \in RowIds :
            Cardinality({ e \in Level2Adds : e.at[1] = i /\ e.row = r })
              = (IF \E s \in BlockSlots(i) : temp_rows[s] = r THEN 1 ELSE 0)
      /\ \A e \in Level2Adds : e.at[1] \in BlockBases /\ e.row \in CarryRows
      /\ \A r \in CarryRows :
            BagSum({ e \in Level2Adds : e.row = r })
              = BagSum({ [slot |-> s, src |-> temp_vals[s].src] :
                         s \in { q \in Slots : temp_rows[q] = r } })
      /\ active_warps <= REDUCE_BLOCK =>
            \A r \in CarryRows : Cardinality({ e \in Level2Adds : e.row = r }) = 1

C17_Witness ==
    /\ pc = "free"
    /\ active_warps > REDUCE_BLOCK
    /\ \E e1, e2 \in Level2Adds : e1.row = e2.row /\ e1.at[1] < e2.at[1]
    /\ \E s \in Slots : s < REDUCE_BLOCK /\ temp_rows[s] = temp_rows[s + 1]

\* the carries the scatter kernel was given: the first red.n slots
Scattered == 1 .. red.n

ScatterEnded == pc = "free" /\ \E i \in DOMAIN log : log[i] = "scatter_update"

\* C18 (as stated): for every carry buffer, also one in which adjacent
\* carries share a row, and under every interleaving of its threads, the
\* scatter-update kernel leaves every y[r] at its prior value plus the sum of
\* all carries of row r.
C18_ScatterCorrect ==
    ScatterEnded =>
      \A r \in RowIds : y[r].v = Reference(r) /\ y[r].src = SetToBag(RowEntries(r))

\* C18 (amended): under every interleaving of its threads the scatter-update
\* kernel leaves every y[r] at its prior value plus the sum of all carries of
\* row r provided the rows of the carries it is given are pairwise distinct,
\* as they are after the merge on the host that precedes its dispatch in
\* __spmv_coo_flat.
C18_ScatterCorrectOnDistinctRows ==
    /\ pc \in {"launch_scatter", "scatter"} /\ (\E i \in DOMAIN log : log[i] = "merge") =>
          \A a, b \in Scattered : temp_rows[a] = temp_rows[b] => a = b
    /\ (ScatterEnded /\ \A a, b \in Scattered : temp_rows[a] = temp_rows[b] => a = b) =>
          \A r \in RowIds : y[r].v = Reference(r) /\ y[r].src = SetToBag(RowEntries(r))

C18_Witness ==
    /\ ScatterEnded
    /\ \E i \in DOMAIN log : log[i] = "merge"
    /\ red.n > REDUCE_BLOCK
    /\ red.n < Len(temp_rows)
    /\ \A a, b \in Scattered : temp_rows[a] = temp_rows[b] => a = b

\* the last row of level 1 goes on in the entries of the tail handler
TailRowShared == num_entries > tail /\ tail > 0 /\ At(I, tail - 1) = At(I, tail)

\* y[r] is added to by a final atomicAdd of a warp and by the tail handler
AddedByBoth(r) ==
    /\ \E e \in Level1Adds : e.row = r /\ e.kind = "atomic" /\ e.at[2] = "final"
    /\ \E e \in acc : e.row = r /\ e.unit = "serial" /\ e.kind = "plain"

\* C19: in the atomic policy, for a sorted matrix whose last row of level 1
\* goes on in [tail, num_entries), y[row] is added to both by a warp's final
\* atomicAdd and by the tail handler's plain add; when the two dispatches
\* overlap, an add to y can be lost on such a row, by the tail handler's plain
\* read-modify-write, and on no other row.
C19_TailRowUnsynchronised ==
    (Atomic /\ pc \in {"unbind", "returned"}) =>
      /\ TailRowShared => AddedByBoth(At(I, tail))
      /\ \A r \in RowIds :
            y[r].src # SetToBag(RowEntries(r)) =>
              /\ AddedByBoth(r)
              /\ y[r].src \sqsubseteq SetToBag(RowEntries(r))
              /\ y[r].v # Reference(r)

C19_Witness ==
    /\ Atomic /\ Returned /\ TailRowShared
    /\ y[At(I, tail)].v # Reference(At(I, tail))
    /\ \A r \in RowIds \ {At(I, tail)} : y[r].v = Reference(r)

\* the slots of the carry buffer that hold a carry written by level 1
WrittenSlots == { s \in DOMAIN temp_rows : temp_rows[s] # Unwritten }

Level2Running == ~Atomic /\ num_entries >= WARP_SIZE /\ pc \in {"launch2", "reduce", "free"}

\* C20 (as stated): in the deferred policy the number of carries written to
\* the carry buffer and consumed by level 2 is min(num_units, U), for every
\* num_entries >= W and every unit limit U.
C20_CarriesEqualUnitLimit ==
    Level2Running =>
      /\ Cardinality(WrittenSlots) = Min(num_units, WARPS_PER_BLOCK * MAX_BLOCKS)
      /\ Len(temp_rows) = Min(num_units, WARPS_PER_BLOCK * MAX_BLOCKS)

\* C20 (amended): in the deferred policy the number of carries written to
\* the carry buffer and consumed by level 2 is the number of units whose
\* interval is not empty, ceil(num_units / iters) with
\* iters = ceil(num_units / min(num_units, U)); it is at most
\* min(num_units, U) and smaller when the last units are left without work.
C20_CarriesEqualWorkingUnits ==
    Level2Running =>
      LET iters == DIVIDE_INTO(num_units, Min(num_units, WARPS_PER_BLOCK * MAX_BLOCKS))
          n     == DIVIDE_INTO(num_units, iters)
      IN  /\ WrittenSlots = 1 .. n
          /\ DOMAIN temp_rows = 1 .. n
          /\ n <= Min(num_units, WARPS_PER_BLOCK * MAX_BLOCKS)
          /\ pc = "free" =>
                BagSum(Level2Adds) = BagSum({ [slot |-> s, src |-> temp_vals[s].src] :
                                              s \in 1 .. n })

C20_Witness ==
    /\ Level2Running /\ pc = "free"
    /\ Cardinality(WrittenSlots) < Min(num_units, WARPS_PER_BLOCK * MAX_BLOCKS)
    /\ Cardinality(Level2Adds) >= 2

\* ------------------------------------------------------------------ one stride

\* segreduce_warp on its own: a matrix of exactly one stride of WARP_SIZE
\* entries, given to one warp by either level-1 kernel; the state is the one
\* the level-1 dispatch leaves, and the warp loads the stride and scans it
ScanWarpSizes == {2, 4, 8}

ScanInit ==
    /\ WARP_SIZE \in ScanWarpSizes
    /\ I \in { s \in [1 .. WARP_SIZE -> RowIds] : Sorted(s) }
    /\ J = [e \in 1 .. Len(I) |-> e % Cardinality(ColIds)]
    /\ V = [e \in 1 .. Len(I) |-> 1 + (e % 3)]
    /\ x = [c \in ColIds |-> 3 - 2 * c]
    /\ y0 = [r \in RowIds |-> 10 * (r + 1)]
    /\ WARPS_PER_BLOCK = 1
    /\ MAX_BLOCKS = 1
    /\ REDUCE_BLOCK \in ReduceBlockChoices
    /\ opi \in {1, 3}
    /\ pc = "level1"
    /\ y = [r \in RowIds |-> [v |-> y0[r], src |-> EmptyBag]]
    /\ acc = {}
    /\ bound = 0
    /\ temp = IF Atomic THEN "none" ELSE "allocated"
    /\ temp_rows = IF Atomic THEN <<>> ELSE [s \in 1 .. active_warps |-> Unwritten]
    /\ temp_vals = IF Atomic THEN <<>> ELSE [s \in 1 .. active_warps |-> Zero]
    /\ warp = [w \in Launched |-> NewWarp]
    /\ serial = NoSerial
    /\ red = NoRed
    /\ log = IF Atomic THEN <<"level1">> ELSE <<"alloc", "level1">>
    /\ results = <<>>
    /\ kept = <<>>

ScanNext ==
    \/ Load1
    \/ Scan1

SpecScan == ScanInit /\ [][ScanNext]_vars

\* the sum of the values val[s] of the lanes s <= t, from lane s down, whose
\* row idx[s] is the row of lane t
RECURSIVE SegmentSum(_, _, _, _)
SegmentSum(idx, val, t, s) ==
    IF s < 0 THEN Zero
    ELSE Add(SegmentSum(idx, val, t, s - 1),
             IF idx[s] = idx[t] THEN val[s] ELSE Zero)

\* C21: for every stride of W non-decreasing rows, the scan at distances
\* 1, 2, 4, ..., W/2 leaves in lane t the sum of the values that the lanes
\* s <= t of the same row held before the scan, and nothing of another row
C21_SegmentedScan ==
    [][\A w \in DOMAIN warp :
          (w \in DOMAIN warp' /\ warp[w].pc = "scan" /\ warp'[w].pc = "flush")
            => \A t \in Lanes :
                 warp'[w].val[t] = SegmentSum(warp[w].idx, warp[w].val, t, t)]_vars

\* a scanned stride of 8 lanes with three rows, in which one row spans 5 lanes
\* (all three distances contribute to its last lane)
C21_Witness ==
    /\ WARP_SIZE = 8
    /\ 0 \in DOMAIN warp
    /\ warp[0].pc = "flush"
    /\ warp[0].idx = [t \in Lanes |-> IF t < 2 THEN 0 ELSE IF t < 7 THEN 1 ELSE 2]
    /\ warp[0].val[6].src = SetToBag(2 .. 6)
    /\ warp[0].val[7].src = SetToBag({7})

\* the adds "y[idx] += val" (or atomicAdd) of the lanes after the scan
LaneFlushes == { e \in Level1Adds : e.at[2] = "lane" }

\* the entry that the lane of a post-scan add had loaded
EntryOf(e) == LaneBegin(e.id, e.at[3]) + e.at[1] * WARP_SIZE

\* the entries of row r that warp w has loaded up to entry n
SeenUpTo(w, n, r) == { m \in UnitInterval(w) : m <= n /\ At(I, m) = r }

\* C22: in every stride of every unit, a lane other than the last whose row
\* differs from its successor's holds the sum of all entries of that row the
\* unit has loaded up to that lane (a folded carry included) and adds it to
\* y[row], once and as the unit's only add to that row; the last lane adds
\* nothing to y in that step and its {row, value} becomes the unit's carry.
C22_PostScanStep ==
    /\ \A e \in LaneFlushes :
          LET n == EntryOf(e)
          IN  /\ e.at[3] # WARP_SIZE - 1
              /\ e.row = At(I, n)
              /\ At(I, n + 1) # e.row
              /\ e.src = SetToBag(SeenUpTo(e.id, n, e.row))
              /\ e.v = SumProducts(SeenUpTo(e.id, n, e.row))
              /\ e.src \sqsubseteq y[e.row].src
              /\ \A e2 \in Level1Adds : (e2.id = e.id /\ e2.row = e.row) => e2 = e
    /\ pc = "level1" =>
         \A w \in DOMAIN warp :
            /\ \A k \in 0 .. (warp[w].k - 1) : \A t \in Lanes \ {WARP_SIZE - 1} :
                  LET n == LaneBegin(w, t) + k * WARP_SIZE
                  IN  At(I, n) # At(I, n + 1)
                        => \E e \in LaneFlushes : e.id = w /\ e.at = <<k, "lane", t>>
            /\ (warp[w].k >= 1 /\ warp[w].pc \in {"load", "final", "done"})
                  => LET n == LaneBegin(w, 0) + warp[w].k * WARP_SIZE - 1
                     IN  /\ warp[w].carry_idx = At(I, n)
                         /\ warp[w].carry_val.src = SetToBag(SeenUpTo(w, n, At(I, n)))
                         /\ warp[w].carry_val.v = SumProducts(SeenUpTo(w, n, At(I, n)))

\* a warp of 4 lanes has finished its second stride, in which a lane flushed
\* a row that began in the first stride and the last lane kept another row
C22_Witness ==
    /\ WARP_SIZE = 4 /\ pc = "level1"
    /\ \E e \in LaneFlushes :
          /\ e.at[1] = 1
          /\ warp[e.id].pc = "final"
          /\ \E m \in DOMAIN e.src : m < LaneBegin(e.id, 0) + WARP_SIZE
          /\ Cardinality(DOMAIN e.src) >= 3
          /\ warp[e.id].carry_idx # e.row

\* ------------------------------------------------------------------ level 2 alone

\* spmv_coo_reduce_update_kernel on any sorted carry buffer of up to
\* MaxReduceCarries carries: every warp has one stride of two entries of one
\* row, so level 1 leaves y as it was and one carry per warp in the buffer
MaxReduceCarries == 5
ReduceBlockSizes == {2, 4}

ReduceInit ==
    /\ WARP_SIZE = 2
    /\ \E n \in 1 .. MaxReduceCarries :
          \E rws \in { s \in [1 .. n -> RowIds] : Sorted(s) } :
              /\ I = [e \in 1 .. 2 * n |-> rws[(e + 1) \div 2]]
              /\ temp_rows = rws
    /\ J = [e \in 1 .. Len(I) |-> e % Cardinality(ColIds)]
    /\ V = [e \in 1 .. Len(I) |-> 1 + (e % 3)]
    /\ x = [c \in ColIds |-> 3 - 2 * c]
    /\ y0 = [r \in RowIds |-> 10 * (r + 1)]
    /\ WARPS_PER_BLOCK = 1
    /\ MAX_BLOCKS = MaxReduceCarries
    /\ REDUCE_BLOCK \in ReduceBlockSizes
    /\ opi \in {1, 2}
    /\ pc = "launch2"
    /\ y = [r \in RowIds |-> [v |-> y0[r], src |-> EmptyBag]]
    /\ acc = {}
    /\ bound = IF UseCache THEN 1 ELSE 0
    /\ temp = "allocated"
    /\ temp_vals = [s \in 1 .. Len(temp_rows) |-> Add(Product(2 * s - 2), Product(2 * s - 1))]
    /\ warp = [w \in Launched |-> [NewWarp EXCEPT !.pc = "done"]]
    /\ serial = NoSerial
    /\ red = NoRed
    /\ log = IF UseCache THEN <<"bind_x", "alloc", "level1", "serial">>
                         ELSE <<"alloc", "level1", "serial">>
    /\ results = <<>>
    /\ kept = <<>>

ReduceNext ==
    \/ Launch2
    \/ ReduceFull
    \/ ReduceRest
    \/ Free

SpecReduce == ReduceInit /\ [][ReduceNext]_vars

\* the sum of the carries of row r among the first s slots of the buffer
RECURSIVE CarrySum(_, _)
CarrySum(r, s) ==
    IF s = 0 THEN Zero
    ELSE Add(CarrySum(r, s - 1), IF temp_rows[s] = r THEN temp_vals[s] ELSE Zero)

\* C23: for every sorted carry buffer of n >= 1 carries, when the level-2
\* kernel has ended y[r] has grown by exactly the sum of the carries of row r,
\* for every row r, and every add to y is made for a carry (lane index < n)
\* to a row of the matrix: the padding lanes and the sentinel add nothing.
C23_Level2AddsCarrySums ==
    pc = "free" =>
      /\ \A r \in RowIds :
            y[r] = Add([v |-> y0[r], src |-> EmptyBag], CarrySum(r, active_warps))
      /\ \A e \in Level2Adds :
            /\ e.row \in RowIds
            /\ e.at[1] + e.id < active_warps

\* five carries in blocks of two: two full blocks and a last block with a
\* padding lane; the carries of row 1 lie in both full blocks
C23_Witness ==
    /\ pc = "free"
    /\ REDUCE_BLOCK = 2
    /\ temp_rows = <<0, 1, 1, 1, 2>>
    /\ Cardinality({ e \in Level2Adds : e.row = 1 }) = 2
    /\ \E e \in Level2Adds : e.at = <<4, "rest">>

\* C24: an operation changes nothing but y elements of rows that have an
\* entry: no step changes rows, cols, vals or x, no step changes y[r] of a row
\* r without an entry, and no add to y (a carry flush, a lane of a padded
\* level-2 block, the sentinel) is ever made to such a row.
C24_Frame ==
    [][/\ UNCHANGED <<I, J, V, x>>
       /\ \A r \in RowIds : RowEntries(r) = {} => y'[r] = y[r]
       /\ \A e \in acc' \ acc : e.row \in RowIds /\ RowEntries(e.row) # {}]_vars

\* a deferred call has returned on a matrix with an empty row between two
\* non-empty ones, after carry flushes, a padded level-2 block and a tail
C24_Witness ==
    /\ Returned /\ ~Atomic
    /\ RowEntries(1) = {} /\ RowEntries(0) # {} /\ RowEntries(2) # {}
    /\ y0[1] # 0 /\ y[1].v = y0[1]
    /\ \E e \in acc : e.unit = "reduce" /\ e.at[2] = "rest"
    /\ \E e \in acc : e.unit = "warp"
    /\ \E e \in acc : e.unit = "serial"

\* the warps of the level-1 dispatch that have executed their last statement
DoneWarps == { w \in DOMAIN warp : warp[w].pc = "done" }

\* C25: in the deferred policy the carry buffer has the slots
\* 0 .. ceil(tail / interval_size) - 1 and no other; during level 1 the
\* written slots are exactly the slots of the finished units that had an
\* interval (a unit writes its slot as its last statement, a unit with
\* begin >= tail writes none), each holding the unit's carry; from the end of
\* level 1 on every slot is written, and level 2 has loaded written carries only.
C25_CarrySlotsWrittenOnce ==
    (~Atomic /\ temp = "allocated") =>
      LET n == DIVIDE_INTO(tail, interval_size)
      IN  /\ DOMAIN temp_rows = 1 .. n /\ DOMAIN temp_vals = 1 .. n
          /\ pc = "level1" =>
                WrittenSlots = { w + 1 : w \in { u \in DoneWarps : u * interval_size < tail } }
          /\ pc \in {"serial", "launch2", "reduce", "free"} => WrittenSlots = 1 .. n
          /\ \A s \in WrittenSlots :
                /\ temp_rows[s] = At(I, Min(s * interval_size, tail) - 1)
                /\ temp_vals[s].src # EmptyBag
          /\ pc = "free" =>
                \A t \in Threads : red.rows[t] \in { temp_rows[s] : s \in 1 .. n } \cup {-1}

\* level 1 is running with three launched warps and two slots: the idle warp
\* and the second warp have finished, the first has not written its slot yet
C25_Witness ==
    /\ ~Atomic /\ pc = "level1" /\ temp = "allocated"
    /\ Cardinality(DOMAIN warp) = 3 /\ Len(temp_rows) = 2
    /\ DoneWarps = {1, 2}
    /\ WrittenSlots = {2}

\* the strides that lane t of warp w executes
LaneStrides(w, t) == { k \in 0 .. num_units : LaneIn(w, t, k) }

\* C26: for every launched unit of a level-1 kernel either all W lanes return
\* at once (the interval is empty, begin >= tail) or all W lanes execute the
\* same strides 0 .. c-1, c >= 1: no lane sits out a stride that another lane
\* of its unit executes; and every entry index n that a lane loads from
\* rows/cols/vals satisfies 0 <= n < tail = (num_entries / W) * W.
C26_LanesInStep ==
    Planned =>
      LET tl == (num_entries \div WARP_SIZE) * WARP_SIZE
      IN  \A w \in Launched :
            /\ \/ /\ w * interval_size >= tl
                  /\ \A t \in Lanes : ~LaneRuns(w, t) /\ LaneStrides(w, t) = {}
               \/ /\ w * interval_size < tl
                  /\ \A t \in Lanes : LaneRuns(w, t) /\ LaneStrides(w, t) = LaneStrides(w, 0)
                  /\ \E c \in 1 .. num_units : LaneStrides(w, 0) = 0 .. (c - 1)
            /\ \A k \in 0 .. num_units : StrideLanes(w, k) \in {{}, Lanes}
            /\ \A t \in Lanes : \A k \in LaneStrides(w, t) :
                  LET n == LaneBegin(w, t) + k * WARP_SIZE
                  IN  0 <= n /\ n < tl /\ n < num_entries

\* a plan with a unit of several strides, a last working unit with fewer
\* strides, a launched unit without interval and an incomplete last stride
\* left to the tail handler
C26_Witness ==
    /\ Planned
    /\ WARP_SIZE >= 4
    /\ num_entries > tail
    /\ \E w1, w2, w3 \in Launched :
          /\ Cardinality(LaneStrides(w1, 0)) >= 2
          /\ LaneStrides(w2, 0) # {}
          /\ Cardinality(LaneStrides(w2, WARP_SIZE - 1)) < Cardinality(LaneStrides(w1, 0))
          /\ LaneStrides(w3, 0) = {}

\* ------------------------------------------------------------------ level 2, thread by thread

\* spmv_coo_reduce_update_kernel with every thread of the block taking its own
\* steps: a thread runs from one __syncthreads() to the next, waits there, and
\* the barrier lets the block go on when every thread of the block waits at
\* that same barrier. The carry count red.n is any number from 0 to
\* MaxReduceCarries (the host dispatches the kernel with n >= 1 only).
\* Barriers: <<"init", 0>> line 178, <<"load", 0>> line 186, <<"read", d>> and
\* <<"add", d>> the two barriers of distance d in segreduce_block,
\* <<"iter", 0>> line 193, <<"rest", 0>> line 208.

\* mutant: the full-block loop runs while i < num_warps
thread_end_unrounded == red.n

\* end = num_warps - (num_warps & (BLOCK_SIZE - 1)), BLOCK_SIZE a power of two
thread_end == red.n - (red.n % REDUCE_BLOCK)

BlockThreads(n) ==
    [n    |-> n,
     i    |-> [t \in Threads |-> t],
     ph   |-> [t \in Threads |-> "run"],
     at   |-> [t \in Threads |-> <<"entry", 0>>],
     blk  |-> [t \in Threads |-> "none"],
     left |-> [t \in Threads |-> Zero],
     bar  |-> [t \in Threads |-> 0],
     its  |-> [t \in Threads |-> 0],
     rows |-> [t \in 0 .. REDUCE_BLOCK |-> Uninit],
     vals |-> [t \in 0 .. REDUCE_BLOCK |-> Zero]]

BarrierInit ==
    /\ WARP_SIZE = 2
    /\ \E n \in 0 .. MaxReduceCarries :
          \E rws \in { s \in [1 .. n -> RowIds] : Sorted(s) } :
              /\ I = [e \in 1 .. 2 * n |-> rws[(e + 1) \div 2]]
              /\ temp_rows = rws
    /\ J = [e \in 1 .. Len(I) |-> e % Cardinality(ColIds)]
    /\ V = [e \in 1 .. Len(I) |-> 1 + (e % 3)]
    /\ x = [c \in ColIds |-> 3 - 2 * c]
    /\ y0 = [r \in RowIds |-> 10 * (r + 1)]
    /\ WARPS_PER_BLOCK = 1
    /\ MAX_BLOCKS = MaxReduceCarries
    /\ REDUCE_BLOCK \in ReduceBlockSizes
    /\ opi = 1
    /\ pc = "reduce"
    /\ y = [r \in RowIds |-> [v |-> y0[r], src |-> EmptyBag]]
    /\ acc = {}
    /\ bound = 0
    /\ temp = "allocated"
    /\ temp_vals = [s \in 1 .. Len(temp_rows) |-> Add(Product(2 * s - 2), Product(2 * s - 1))]
    /\ warp = <<>>
    /\ serial = NoSerial
    /\ red = BlockThreads(Len(temp_rows))
    /\ log = <<"alloc", "level1", "serial", "reduce_update">>
    /\ results = <<>>
    /\ kept = <<>>

\* thread t arrives at barrier `site` having made the changes `r` to the block
Arrive(r, t, site) ==
    [r EXCEPT !.ph[t] = "wait", !.at[t] = site, !.bar[t] = @ + 1]

\* the first half of a distance of segreduce_block: left = val[threadIdx.x - d]
ReadLeft(r, t, d) ==
    Arrive([r EXCEPT !.left[t] = IF t >= d /\ r.rows[t] = r.rows[t - d]
                                    THEN r.vals[t - d] ELSE Zero],
           t, <<"read", d>>)

\* if (threadIdx.x == 0) { rows[BLOCK_SIZE] = -1; vals[BLOCK_SIZE] = 0; } __syncthreads();
ThreadInit(t) ==
    /\ pc = "reduce"
    /\ red.ph[t] = "run" /\ red.at[t] = <<"entry", 0>>
    /\ red' = Arrive(IF t = 0
                       THEN [red EXCEPT !.rows[REDUCE_BLOCK] = -1, !.vals[REDUCE_BLOCK] = Zero]
                       ELSE red,
                     t, <<"init", 0>>)
    /\ UNCHANGED <<inputs, opi, pc, y, acc, bound, temp, temp_rows, temp_vals, warp, serial, log, results, kept>>

\* the test of "while (i < end)" (after "i += BLOCK_SIZE" when it follows an
\* iteration), then the loads of a full block, or "if (end < num_warps)" and
\* the loads or the padding of the last block, or the end of the kernel
ThreadLoad(t) ==
    /\ pc = "reduce"
    /\ red.ph[t] = "run" /\ red.at[t] \in {<<"init", 0>>, <<"iter", 0>>}
    /\ LET i1 == IF red.at[t] = <<"iter", 0>> THEN red.i[t] + REDUCE_BLOCK ELSE red.i[t]
           r1 == [red EXCEPT !.i[t] = i1]
       IN  red' =
             IF i1 < thread_end
               THEN Arrive([r1 EXCEPT !.rows[t] = temp_rows[i1 + 1],
                                      !.vals[t] = temp_vals[i1 + 1],
                                      !.blk[t] = "full", !.its[t] = @ + 1],
                           t, <<"load", 0>>)
             ELSE IF thread_end < red.n
               THEN Arrive([r1 EXCEPT !.rows[t] = IF i1 < red.n THEN temp_rows[i1 + 1] ELSE -1,
                                      !.vals[t] = IF i1 < red.n THEN temp_vals[i1 + 1] ELSE Zero,
                                      !.blk[t] = "rest"],
                           t, <<"rest", 0>>)
             ELSE [r1 EXCEPT !.ph[t] = "done"]
    /\ UNCHANGED <<inputs, opi, pc, y, acc, bound, temp, temp_rows, temp_vals, warp, serial, log, results, kept>>

\* segreduce_block, first distance: if (...) { left = val[threadIdx.x - 1]; } __syncthreads();
ThreadScanFirst(t) ==
    /\ pc = "reduce"
    /\ red.ph[t] = "run" /\ red.at[t] \in {<<"load", 0>>, <<"rest", 0>>}
    /\ red' = ReadLeft(red, t, 1)
    /\ UNCHANGED <<inputs, opi, pc, y, acc, bound, temp, temp_rows, temp_vals, warp, serial, log, results, kept>>

\* val[threadIdx.x] += left; left = 0; __syncthreads();
ThreadScanAdd(t) ==
    /\ pc = "reduce"
    /\ red.ph[t] = "run" /\ red.at[t][1] = "read"
    /\ red' = Arrive([red EXCEPT !.vals[t] = Add(@, red.left[t]), !.left[t] = Zero],
                     t, <<"add", red.at[t][2]>>)
    /\ UNCHANGED <<inputs, opi, pc, y, acc, bound, temp, temp_rows, temp_vals, warp, serial, log, results, kept>>

\* the next distance of segreduce_block
ThreadScanNext(t) ==
    /\ pc = "reduce"
    /\ red.ph[t] = "run" /\ red.at[t][1] = "add"
    /\ 2 * red.at[t][2] < REDUCE_BLOCK
    /\ red' = ReadLeft(red, t, 2 * red.at[t][2])
    /\ UNCHANGED <<inputs, opi, pc, y, acc, bound, temp, temp_rows, temp_vals, warp, serial, log, results, kept>>

\* after segreduce_block: if (rows[threadIdx.x] != rows[threadIdx.x + 1])
\* y[rows[threadIdx.x]] += vals[threadIdx.x]; then the barrier of line 193
\* (full block) or the end of the kernel (last block, under "if (i < num_warps)")
ThreadFlush(t) ==
    /\ pc = "reduce"
    /\ red.ph[t] = "run" /\ red.at[t][1] = "add"
    /\ 2 * red.at[t][2] >= REDUCE_BLOCK
    /\ LET adds == /\ red.rows[t] # red.rows[t + 1]
                   /\ red.blk[t] = "rest" => red.i[t] < red.n
       IN  /\ IF adds
                THEN /\ y' = [y EXCEPT ![red.rows[t]] = Add(@, red.vals[t])]
                     /\ acc' = acc \cup {Event("reduce", t, red.rows[t], "plain",
                                               <<red.i[t] - t, red.blk[t]>>, red.vals[t])}
                ELSE UNCHANGED <<y, acc>>
           /\ red' = IF red.blk[t] = "full" THEN Arrive(red, t, <<"iter", 0>>)
                                            ELSE [red EXCEPT !.ph[t] = "done"]
    /\ UNCHANGED <<inputs, opi, pc, bound, temp, temp_rows, temp_vals, warp, serial, log, results, kept>>

\* __syncthreads(): every thread of the block waits at the same barrier
BarrierRelease ==
    /\ pc = "reduce"
    /\ \A t \in Threads : red.ph[t] = "wait" /\ red.at[t] = red.at[0]
    /\ red' = [red EXCEPT !.ph = [t \in Threads |-> "run"]]
    /\ UNCHANGED <<inputs, opi, pc, y, acc, bound, temp, temp_rows, temp_vals, warp, serial, log, results, kept>>

ThreadInit1     == \E t \in Threads : ThreadInit(t)
ThreadLoad1     == \E t \in Threads : ThreadLoad(t)
ThreadScanFirst1 == \E t \in Threads : ThreadScanFirst(t)
ThreadScanAdd1  == \E t \in Threads : ThreadScanAdd(t)
ThreadScanNext1 == \E t \in Threads : ThreadScanNext(t)
ThreadFlush1    == \E t \in Threads : ThreadFlush(t)

BarrierNext ==
    \/ ThreadInit1
    \/ ThreadLoad1
    \/ ThreadScanFirst1
    \/ ThreadScanAdd1
    \/ ThreadScanNext1
    \/ ThreadFlush1
    \/ BarrierRelease

\* every thread that can take a step, and the barrier, is eventually scheduled
SpecBarrier == BarrierInit /\ [][BarrierNext]_vars /\ WF_vars(BarrierNext)

AllExited == \A t \in Threads : red.ph[t] = "done"

\* no two threads are apart in the barriers: a thread waits only at the
\* barrier the other waiting threads wait at, never while a thread has left
\* the kernel, and the arrivals, loop iterations and branches agree
InStep ==
    \A t1, t2 \in Threads :
        /\ (red.ph[t1] = "wait" /\ red.ph[t2] = "wait") => red.at[t1] = red.at[t2]
        /\ red.ph[t1] = "wait" => red.ph[t2] # "done"
        /\ red.bar[t1] - red.bar[t2] \in {-1, 0, 1}
        /\ (red.ph[t1] = "done" /\ red.ph[t2] = "done") =>
              /\ red.bar[t1] = red.bar[t2]
              /\ red.its[t1] = red.its[t2]
              /\ red.blk[t1] = red.blk[t2]

\* C27: in spmv_coo_reduce_update_kernel all threads of the block execute the
\* same number of iterations of the full-block loop and take the same branch
\* of "end < num_warps", so they arrive at every barrier the same number of
\* times; no thread is ever left waiting at a barrier, and the kernel
\* terminates, for every carry count num_warps >= 0.
C27_BarriersInStepAndTerminates ==
    /\ [](InStep /\ \A t \in Threads : red.its[t] * REDUCE_BLOCK <= red.n)
    /\ <>AllExited

\* five carries and two threads: every thread has left the kernel after two
\* full-block iterations and the padded last block, 12 barriers each
C27_Witness ==
    /\ AllExited
    /\ red.n = 5 /\ REDUCE_BLOCK = 2
    /\ \A t \in Threads : red.its[t] = 2 /\ red.blk[t] = "rest" /\ red.bar[t] = 12

\* when the threads have left the kernel y has grown by the carries of each row
BlockResult ==
    AllExited =>
      \A r \in RowIds : y[r] = Add([v |-> y0[r], src |-> EmptyBag], CarrySum(r, red.n))

\* the rows of the entries left to the tail handler, [tail, num_entries)
TailRows ==
    { At(I, n) : n \in ((num_entries \div WARP_SIZE) * WARP_SIZE) .. (num_entries - 1) }

\* C28: in the deferred policy, for every sorted matrix, level 1 never adds
\* to y[r] for a row r that has an entry in [tail, num_entries): the rows
\* level 1 adds to and the rows the tail handler adds to are disjoint, and
\* what [0, tail) holds of such a row reaches y through the carry buffer and
\* level 2 alone.
C28_Level1AvoidsTailRows ==
    (~Atomic /\ num_entries >= WARP_SIZE) =>
      /\ \A e \in Level1Adds : e.row \notin TailRows
      /\ \A e1 \in Level1Adds : \A e2 \in acc : e2.unit = "serial" => e1.row # e2.row
      /\ Returned =>
            \A r \in TailRows :
               BagSum({ e \in Level2Adds : e.row = r })
                 = SetToBag({ n \in RowEntries(r) :
                                n < (num_entries \div WARP_SIZE) * WARP_SIZE })

\* a deferred call has returned on a matrix whose tail continues the last row
\* of level 1, after level 1 and the tail handler have both added to y
C28_Witness ==
    /\ Returned /\ ~Atomic /\ num_entries >= WARP_SIZE /\ num_entries > tail
    /\ At(I, tail - 1) = At(I, tail)
    /\ Level1Adds # {}
    /\ \E e \in Level2Adds : e.row = At(I, tail) /\ e.src # EmptyBag
    /\ \E e \in acc : e.unit = "serial" /\ e.row = At(I, tail)

====
